---- MODULE Spec2Model ----
(***************************************************************************)
(* Model of the two RAG pipelines of rag-chatbot and of their Gradio       *)
(* front-ends:                                                             *)
(*   TradingPlatformRAG  (src/rag_pipeline.py)  + chat (app.py)            *)
(*   SingleURLRAG (src/rag_pipeline_single_url.py) + chat_function         *)
(*                                              (app_single_url.py)        *)
(* Every public method is one action.  What the environment decides (which *)
(* source loads, whether the embedding or chat gateway fails, whether the  *)
(* caller cancels a generation) is an input of the action.  The variable   *)
(* ret records what the last call did and handed back to its caller.       *)
(*                                                                         *)
(* Fields of TradingPlatformRAG carry the prefix tp_, fields of            *)
(* SingleURLRAG the prefix su_ (both classes name their fields alike).     *)
(***************************************************************************)
EXTENDS Integers, Sequences, FiniteSets, Bags

VARIABLES
    app,               \* the front-end process: "app.py" (one TradingPlatformRAG)
                       \*   or "app_single_url.py" (one SingleURLRAG)
    tp_vector_store,   \* TradingPlatformRAG.vector_store: None or the Chroma handle
    tp_llm,            \* TradingPlatformRAG.llm
    tp_chain,          \* TradingPlatformRAG.chain
    tp_memory,         \* TradingPlatformRAG.memory: NoMemory or the buffered turns
    chroma_db,         \* collection "trading_platform" under persist_directory:
                       \*   the bag of stored chunks, one entry per add
    su_documents,      \* SingleURLRAG.documents
    su_chunks,         \* SingleURLRAG.chunks
    su_vector_store,   \* SingleURLRAG.vector_store: NoStore or the store's entries
    su_llm,            \* SingleURLRAG.llm
    su_memory,         \* SingleURLRAG.memory
    su_retriever,      \* SingleURLRAG.retriever: NoRetriever (no attribute) or
                       \*   the entries of the store it was created from
    ret                \* what the last call did and returned

vars == <<app, tp_vector_store, tp_llm, tp_chain, tp_memory, chroma_db,
          su_documents, su_chunks, su_vector_store, su_llm, su_memory,
          su_retriever, ret>>

tp_vars == <<tp_vector_store, tp_llm, tp_chain, tp_memory, chroma_db>>
su_vars == <<su_documents, su_chunks, su_vector_store, su_llm, su_memory,
             su_retriever>>

None == "None"

(***************************************************************************)
(* Bounds of the model.                                                    *)
(***************************************************************************)
MaxTurns == 3        \* turns a conversation memory may hold before chat stops
MaxEntries == 4      \* entries the Chroma collection may hold before adds stop
max_history_turns == 2   \* a candidate bound for the memory (the code sets none)

(***************************************************************************)
(* Inputs.                                                                 *)
(***************************************************************************)
Urls == {"u1", "u2"}
Questions == {"q1"}
Sessions == {"s1", "s2"}

\* The text fetched from a source, as its length in characters; the text is
\* taken to hold no separator, so that the splitter works at character level.
DocLen(url) == IF url = "u1" THEN 2500 ELSE 600

\* The url lists given to load_and_chunk_document / initialize_from_url.
UrlLists == {<<>>, <<"u1">>, <<"u1", "u2">>, <<"u2", "u1">>}

default_chunk_size == 1000
default_chunk_overlap == 200
top_k == 3

\* (chunk_size, chunk_overlap) pairs a caller passes: the defaults, an overlap
\* equal to the chunk size, an overlap above it.
ChunkParams == {<<default_chunk_size, default_chunk_overlap>>,
                <<3000, 3000>>, <<200, 1000>>}

Range(s) == {s[i] : i \in 1..Len(s)}

Min(a, b) == IF a <= b THEN a ELSE b

(***************************************************************************)
(* Values.                                                                 *)
(***************************************************************************)
\* An optional object with contents: unset (None / no attribute), or set.
NoMemory == [set |-> FALSE, turns |-> <<>>]
NoStore == [set |-> FALSE, entries |-> <<>>]
NoRetriever == [set |-> FALSE, entries |-> <<>>]
NoValue == [kind |-> "none", question |-> None]
NoPrompt == [text |-> <<>>, context |-> <<>>, question |-> None]

\* What a call reports: the method, its class, whether it returned or raised
\* and what, the value returned, the arguments, the environment's choices
\* (env), the sources fetched and loaded, the steps a query took in order
\* (trace), the history the query's generation saw, and the chat session the
\* query came from (session is known to the front-end only, not to the
\* pipeline).
RetInit ==
    [op |-> "__init__", outcome |-> "return", error |-> "none",
     value |-> NoValue, args |-> <<>>, env |-> "ok", fetched |-> <<>>,
     loaded |-> <<>>, chunks |-> <<>>, trace |-> <<>>, history |-> <<>>,
     session |-> None, before |-> <<>>, db_before |-> EmptyBag,
     retrieved |-> <<>>, prompt |-> NoPrompt]

(***************************************************************************)
(* RecursiveCharacterTextSplitter, on separator-free text: the chunks are  *)
(* windows of chunk_size characters, each starting chunk_overlap           *)
(* characters before the end of the previous one (one character on when    *)
(* the overlap leaves no room), the last one ending with the text.         *)
(***************************************************************************)
\* The constructor rejects only an overlap strictly above the chunk size.
splitter_rejects(chunk_size, chunk_overlap) == chunk_overlap > chunk_size

RECURSIVE split_text(_, _, _, _)
split_text(url, start, chunk_size, chunk_overlap) ==
    LET step == IF chunk_size - chunk_overlap >= 1
                THEN chunk_size - chunk_overlap ELSE 1
    IN  IF DocLen(url) = 0 THEN <<>>
        ELSE IF start + chunk_size >= DocLen(url)
        THEN <<[doc |-> url, start |-> start, end |-> DocLen(url)]>>
        ELSE <<[doc |-> url, start |-> start, end |-> start + chunk_size]>>
             \o split_text(url, start + step, chunk_size, chunk_overlap)

RECURSIVE split_documents(_, _, _)
split_documents(documents, chunk_size, chunk_overlap) ==
    IF documents = <<>> THEN <<>>
    ELSE split_text(Head(documents), 0, chunk_size, chunk_overlap)
         \o split_documents(Tail(documents), chunk_size, chunk_overlap)

(***************************************************************************)
(* TradingPlatformRAG                                                      *)
(***************************************************************************)
tp_state == [vector_store |-> tp_vector_store, llm |-> tp_llm,
             chain |-> tp_chain, memory |-> tp_memory, db |-> chroma_db]

tp_set(st) ==
    /\ tp_vector_store' = st.vector_store
    /\ tp_llm' = st.llm
    /\ tp_chain' = st.chain
    /\ tp_memory' = st.memory
    /\ chroma_db' = st.db

\* load_and_chunk_document: every url is fetched in order, a failing one is
\* skipped; only then is the splitter built (which may reject the parameters)
\* and the loaded documents split.  ok is the set of sources that load.
load_and_chunk_document(urls, chunk_size, chunk_overlap, ok) ==
    LET loaded == SelectSeq(urls, LAMBDA u : u \in ok)
        bad == splitter_rejects(chunk_size, chunk_overlap)
    IN  [fetched |-> urls,
         loaded |-> loaded,
         raised |-> bad,
         error |-> IF bad THEN "ValueError: larger chunk overlap than chunk size"
                   ELSE "none",
         chunks |-> IF bad THEN <<>>
                    ELSE split_documents(loaded, chunk_size, chunk_overlap)]

\* The chunk lists a caller can hold: what load_and_chunk_document returns for
\* some urls, some sources loading and some accepted parameters.
ChunkLists ==
    {split_documents(SelectSeq(urls, LAMBDA u : u \in ok), p[1], p[2]) :
        urls \in UrlLists, ok \in SUBSET Urls,
        p \in {q \in ChunkParams : ~splitter_rejects(q[1], q[2])}}

\* What the embedding gateway does during a build: it works, or it fails.
BuildEnvs == {"ok", "embedding_fails"}

\* The collection after one add per chunk, each under a fresh id.
RECURSIVE add_documents(_, _)
add_documents(db, chunks) ==
    IF chunks = <<>> THEN db
    ELSE add_documents(db (+) SetToBag({Head(chunks)}), Tail(chunks))

\* build_vector_store without the store's rejection of an empty add.
build_vector_store_accepts_empty(st, chunks, env) ==
    IF chunks # <<>> /\ env = "embedding_fails"
    THEN [st |-> st, raised |-> TRUE, error |-> "EmbeddingError"]
    ELSE [st |-> [st EXCEPT !.db = add_documents(st.db, chunks),
                            !.vector_store = "Chroma"],
          raised |-> FALSE, error |-> "none"]

\* build_vector_store: Chroma.from_documents opens (or creates) the collection
\* "trading_platform" of persist_directory, embeds the chunks and adds each
\* under a fresh id (no ids are passed); self.vector_store is assigned when it
\* returns.  The store rejects an add of no entries ("Expected IDs to be a
\* non-empty list"), and a failure of the embedding gateway adds nothing.
build_vector_store(st, chunks, env) ==
    IF chunks = <<>>
    THEN [st |-> st, raised |-> TRUE,
          error |-> "ValueError: expected a non-empty list"]
    ELSE IF env = "embedding_fails"
    THEN [st |-> st, raised |-> TRUE, error |-> "EmbeddingError"]
    ELSE [st |-> [st EXCEPT !.db = add_documents(st.db, chunks),
                            !.vector_store = "Chroma"],
          raised |-> FALSE, error |-> "none"]

\* setup_conversation_chain assigning the chain before the retriever is made.
setup_conversation_chain_chain_first(st) ==
    LET st1 == [st EXCEPT !.llm = "ChatOpenAI",
                          !.memory = [set |-> TRUE, turns |-> <<>>],
                          !.chain = "ConversationalRetrievalChain"]
    IN  IF st.vector_store = None
        THEN [st |-> st1, raised |-> TRUE,
              error |-> "AttributeError: NoneType has no as_retriever"]
        ELSE [st |-> st1, raised |-> FALSE, error |-> "none"]

\* setup_conversation_chain: llm and a fresh memory are assigned first; the
\* retriever needs the vector store (None has no as_retriever), and the chain
\* is assigned last, around the memory just created.
setup_conversation_chain(st) ==
    LET st1 == [st EXCEPT !.llm = "ChatOpenAI",
                          !.memory = [set |-> TRUE, turns |-> <<>>]]
    IN  IF st.vector_store = None
        THEN [st |-> st1, raised |-> TRUE,
              error |-> "AttributeError: NoneType has no as_retriever"]
        ELSE [st |-> [st1 EXCEPT !.chain = "ConversationalRetrievalChain"],
              raised |-> FALSE, error |-> "none"]

\* What the gateways and the caller do during a query: nothing; the embedding
\* gateway fails during retrieval; the chat gateway fails; the caller cancels
\* a generation call (the condensing of the question, or the answer), which
\* then never returns.
QueryFaults == {"none", "retrieve_error", "generate_error",
                "condense_cancelled", "generate_cancelled"}

FaultError(fault) ==
    CASE fault = "retrieve_error" -> "EmbeddingError"
      [] fault = "generate_error" -> "GenerationError"
      [] fault \in {"condense_cancelled", "generate_cancelled"} -> "Cancelled"
      [] OTHER -> "none"

\* The answer of the chat model to a question.
Answer(question) == [kind |-> "answer", question |-> question]

\* The string chat_function builds from an exception.
ErrorText(question) == [kind |-> "error_text", question |-> question]

\* One question/answer turn of the buffer (a HumanMessage and an AIMessage).
\* session is the front-end's chat session the question came from; the buffer
\* itself does not hold it.
Turn(question, session) ==
    [question |-> question, answer |-> Answer(question), session |-> session]

\* chain_invoke saving the question to the memory before the generation, so
\* that a generation that does not return leaves a question without answer.
chain_invoke_saves_question_first(turns, question, session, fault) ==
    LET condense == IF turns # <<>> THEN <<"condense">> ELSE <<>>
        t1 == <<"load_memory">> \o condense
        t2 == t1 \o <<"retrieve">>
        t3 == t2 \o <<"save_question", "generate">>
        partial == [question |-> question, answer |-> NoValue,
                    session |-> session]
        fail(trace, kept) == [raised |-> TRUE, error |-> FaultError(fault),
                              turns |-> kept, trace |-> trace, value |-> NoValue]
    IN  IF turns # <<>> /\ fault = "condense_cancelled" THEN fail(t1, turns)
        ELSE IF fault = "retrieve_error" THEN fail(t2, turns)
        ELSE IF fault \in {"generate_error", "generate_cancelled"}
        THEN fail(t3, Append(turns, partial))
        ELSE [raised |-> FALSE, error |-> "none",
              turns |-> Append(turns, Turn(question, session)),
              trace |-> t3 \o <<"save">>, value |-> Answer(question)]

\* ConversationalRetrievalChain.invoke: the chain loads the history from its
\* memory; with a non-empty history it first asks the chat model to condense
\* the question; it retrieves (embedding the question), generates the answer,
\* and only after the answer returned saves the turn to the memory.
chain_invoke(turns, question, session, fault) ==
    LET condense == IF turns # <<>> THEN <<"condense">> ELSE <<>>
        t1 == <<"load_memory">> \o condense
        t2 == t1 \o <<"retrieve">>
        t3 == t2 \o <<"generate">>
        fail(trace) == [raised |-> TRUE, error |-> FaultError(fault),
                        turns |-> turns, trace |-> trace, value |-> NoValue]
    IN  IF turns # <<>> /\ fault = "condense_cancelled" THEN fail(t1)
        ELSE IF fault = "retrieve_error" THEN fail(t2)
        ELSE IF fault \in {"generate_error", "generate_cancelled"} THEN fail(t3)
        ELSE [raised |-> FALSE, error |-> "none",
              turns |-> Append(turns, Turn(question, session)),
              trace |-> t3 \o <<"save">>, value |-> Answer(question)]

\* query: rejected while no chain is set, else the chain is invoked.
tp_query(st, question, session, fault) ==
    IF st.chain = None
    THEN [st |-> st, raised |-> TRUE, error |-> "ValueError: not initialized",
          trace |-> <<>>, history |-> <<>>, value |-> NoValue]
    ELSE LET r == chain_invoke(st.memory.turns, question, session, fault)
         IN  [st |-> [st EXCEPT !.memory = [set |-> TRUE, turns |-> r.turns]],
              raised |-> r.raised, error |-> r.error, trace |-> r.trace,
              history |-> st.memory.turns, value |-> r.value]

Outcome(raised) == IF raised THEN "raise" ELSE "return"

\* A call on the pipeline of app.py leaves the other application alone, and
\* the other way round.
tp_frame ==
    /\ app = "app.py"
    /\ UNCHANGED <<app, su_documents, su_chunks, su_vector_store, su_llm,
                   su_memory, su_retriever>>

su_frame ==
    /\ app = "app_single_url.py"
    /\ UNCHANGED <<app, tp_vector_store, tp_llm, tp_chain, tp_memory, chroma_db>>

----------------------------------------------------------------------------
(* Actions of TradingPlatformRAG and of app.py *)

TP_load_and_chunk_document(urls, params, ok) ==
    LET r == load_and_chunk_document(urls, params[1], params[2], ok)
    IN  /\ ret' = [RetInit EXCEPT !.op = "tp.load_and_chunk_document",
                       !.outcome = Outcome(r.raised), !.error = r.error,
                       !.args = <<urls, params[1], params[2]>>,
                       !.fetched = r.fetched, !.loaded = r.loaded,
                       !.chunks = r.chunks]
        /\ UNCHANGED tp_vars
        /\ tp_frame

TP_build_vector_store(chunks, env) ==
    LET r == build_vector_store(tp_state, chunks, env)
    IN  /\ BagCardinality(chroma_db) + Len(chunks) <= MaxEntries
        /\ chunks = <<>> => env = "ok"     \* nothing to embed
        /\ tp_set(r.st)
        /\ ret' = [RetInit EXCEPT !.op = "tp.build_vector_store",
                       !.outcome = Outcome(r.raised), !.error = r.error,
                       !.env = env, !.chunks = chunks, !.db_before = chroma_db]
        /\ tp_frame

TP_setup_conversation_chain ==
    LET r == setup_conversation_chain(tp_state)
    IN  /\ tp_set(r.st)
        /\ ret' = [RetInit EXCEPT !.op = "tp.setup_conversation_chain",
                       !.outcome = Outcome(r.raised), !.error = r.error]
        /\ tp_frame

\* initialize_from_url: load and chunk with the default parameters, build the
\* vector store, set up the chain; the first step that raises ends the call.
TP_initialize_from_url(urls, ok, env) ==
    LET l == load_and_chunk_document(urls, default_chunk_size,
                                     default_chunk_overlap, ok)
        b == build_vector_store(tp_state, l.chunks, env)
        c == setup_conversation_chain(b.st)
        r == IF l.raised THEN [st |-> tp_state, raised |-> TRUE, error |-> l.error]
             ELSE IF b.raised THEN b
             ELSE c
    IN  /\ BagCardinality(chroma_db) + Len(l.chunks) <= MaxEntries
        /\ l.chunks = <<>> => env = "ok"   \* nothing to embed
        /\ tp_set(r.st)
        /\ ret' = [RetInit EXCEPT !.op = "tp.initialize_from_url",
                       !.outcome = Outcome(r.raised), !.error = r.error,
                       !.args = <<urls>>, !.env = env,
                       !.fetched = l.fetched, !.loaded = l.loaded,
                       !.chunks = l.chunks, !.db_before = chroma_db]
        /\ tp_frame

\* chat of app.py: the callback of every chat session calls query on the one
\* pipeline object of the application and hands back what query returns; an
\* exception of query leaves the callback as it is.
TP_chat(session, message, fault) ==
    LET r == tp_query(tp_state, message, session, fault)
    IN  /\ Len(tp_memory.turns) < MaxTurns
        /\ fault # "none" => tp_chain # None      \* no gateway is reached
        /\ fault = "condense_cancelled" => tp_memory.turns # <<>>
        /\ tp_set(r.st)
        /\ ret' = [RetInit EXCEPT !.op = "tp.chat",
                       !.outcome = Outcome(r.raised), !.error = r.error,
                       !.value = r.value, !.args = <<message>>,
                       !.env = fault, !.trace = r.trace,
                       !.history = r.history, !.session = session,
                       !.before = tp_memory.turns]
        /\ tp_frame

TP_Next ==
       \/ \E urls \in UrlLists, params \in ChunkParams :
             \E ok \in SUBSET Range(urls) :
                TP_load_and_chunk_document(urls, params, ok)
       \/ \E chunks \in ChunkLists, env \in BuildEnvs :
             TP_build_vector_store(chunks, env)
       \/ TP_setup_conversation_chain
       \/ \E urls \in UrlLists, env \in BuildEnvs :
             \E ok \in SUBSET Range(urls) :
                TP_initialize_from_url(urls, ok, env)
       \/ \E session \in Sessions, message \in Questions, fault \in QueryFaults :
             TP_chat(session, message, fault)

----------------------------------------------------------------------------
(***************************************************************************)
(* SingleURLRAG                                                            *)
(***************************************************************************)
su_state == [documents |-> su_documents, chunks |-> su_chunks,
             vector_store |-> su_vector_store, llm |-> su_llm,
             memory |-> su_memory, retriever |-> su_retriever]

su_set(st) ==
    /\ su_documents' = st.documents
    /\ su_chunks' = st.chunks
    /\ su_vector_store' = st.vector_store
    /\ su_llm' = st.llm
    /\ su_memory' = st.memory
    /\ su_retriever' = st.retriever

\* load_document: the documents of the url replace self.documents; a failure
\* of the loader is printed and raised again.
load_document(st, url, loads) ==
    IF loads
    THEN [st |-> [st EXCEPT !.documents = <<url>>], raised |-> FALSE,
          error |-> "none"]
    ELSE [st |-> st, raised |-> TRUE, error |-> "DocumentLoadError"]

\* chunk_document: the splitter is built (it may reject the parameters), then
\* self.documents are split into self.chunks.
chunk_document(st, chunk_size, chunk_overlap) ==
    IF splitter_rejects(chunk_size, chunk_overlap)
    THEN [st |-> st, raised |-> TRUE,
          error |-> "ValueError: larger chunk overlap than chunk size"]
    ELSE [st |-> [st EXCEPT !.chunks =
                     split_documents(st.documents, chunk_size, chunk_overlap)],
          raised |-> FALSE, error |-> "none"]

\* generate_embeddings: a new, empty InMemoryVectorStore is assigned to
\* self.vector_store, then self.chunks are embedded and added to it; a failure
\* of the embedding gateway leaves the new store assigned and empty.
generate_embeddings(st, embed_ok) ==
    LET st1 == [st EXCEPT !.vector_store = [set |-> TRUE, entries |-> <<>>]]
    IN  IF st.chunks # <<>> /\ ~embed_ok
        THEN [st |-> st1, raised |-> TRUE, error |-> "EmbeddingError"]
        ELSE [st |-> [st1 EXCEPT !.vector_store.entries = st.chunks],
              raised |-> FALSE, error |-> "none"]

\* setup_qa_chain: llm is assigned first; the retriever is created from the
\* vector store assigned at that time (None has no as_retriever).
setup_qa_chain(st) ==
    LET st1 == [st EXCEPT !.llm = "ChatOpenAI"]
    IN  IF ~st.vector_store.set
        THEN [st |-> st1, raised |-> TRUE,
              error |-> "AttributeError: NoneType has no as_retriever"]
        ELSE [st |-> [st1 EXCEPT !.retriever =
                         [set |-> TRUE, entries |-> st.vector_store.entries]],
              raised |-> FALSE, error |-> "none"]

\* The template of qa_prompt, as its lines; {context} and {question} are the
\* two input variables.
qa_prompt ==
    <<"Use the following context to answer the question.", "Context:",
      "{context}", "Question: {question}", "Answer:">>

\* qa_prompt.format: the text of the template with the context (the page
\* contents of the retrieved chunks joined by newlines, nothing for no chunk)
\* and the question put in; the text is the same for every context.
qa_prompt_format(context, question) ==
    [text |-> qa_prompt, context |-> context, question |-> question]

\* retriever.invoke: the k = 3 entries of the store most similar to the
\* question, all entries when the store holds fewer (which entries rank first
\* is the embedding's choice; the first in store order stand for them).
retriever_invoke(entries) == SubSeq(entries, 1, Min(top_k, Len(entries)))

\* query: rejected while there is no retriever; else the retriever is invoked
\* (embedding the question), the prompt is built from the retrieved chunks and
\* the question, the chat model is invoked and its answer returned.  No field
\* is assigned.
su_query(st, question, fault) ==
    LET docs == retriever_invoke(st.retriever.entries)
        prompt == qa_prompt_format(docs, question)
        fail(trace, retrieved, sent) ==
            [raised |-> TRUE, error |-> FaultError(fault),
             trace |-> trace, value |-> NoValue, retrieved |-> retrieved,
             prompt |-> sent]
    IN  IF ~st.retriever.set
        THEN [raised |-> TRUE, error |-> "ValueError: not initialized",
              trace |-> <<>>, value |-> NoValue, retrieved |-> <<>>,
              prompt |-> NoPrompt]
        ELSE IF fault = "retrieve_error"
        THEN fail(<<"retrieve">>, <<>>, NoPrompt)
        ELSE IF fault \in {"generate_error", "generate_cancelled"}
        THEN fail(<<"retrieve", "generate">>, docs, prompt)
        ELSE [raised |-> FALSE, error |-> "none",
              trace |-> <<"retrieve", "generate">>, value |-> Answer(question),
              retrieved |-> docs, prompt |-> prompt]

\* chat_function of app_single_url.py: what query returns, or for any
\* Exception of query the string "Error: ..." as the reply; a cancellation is
\* no Exception and leaves the callback.
chat_function(st, message, fault) ==
    LET r == su_query(st, message, fault)
    IN  IF r.raised /\ r.error # "Cancelled"
        THEN [r EXCEPT !.raised = FALSE, !.value = ErrorText(message)]
        ELSE r

(* Actions of SingleURLRAG and of app_single_url.py *)

SU_load_document(url, loads) ==
    LET r == load_document(su_state, url, loads)
    IN  /\ su_set(r.st)
        /\ ret' = [RetInit EXCEPT !.op = "su.load_document",
                       !.outcome = Outcome(r.raised), !.error = r.error,
                       !.args = <<url>>, !.fetched = <<url>>,
                       !.loaded = IF loads THEN <<url>> ELSE <<>>]
        /\ su_frame

SU_chunk_document(params) ==
    LET r == chunk_document(su_state, params[1], params[2])
    IN  /\ su_set(r.st)
        /\ ret' = [RetInit EXCEPT !.op = "su.chunk_document",
                       !.outcome = Outcome(r.raised), !.error = r.error,
                       !.args = <<params[1], params[2]>>,
                       !.chunks = IF r.raised THEN <<>> ELSE r.st.chunks]
        /\ su_frame

SU_generate_embeddings(embed_ok) ==
    LET r == generate_embeddings(su_state, embed_ok)
    IN  /\ su_chunks = <<>> => embed_ok    \* nothing to embed
        /\ su_set(r.st)
        /\ ret' = [RetInit EXCEPT !.op = "su.generate_embeddings",
                       !.outcome = Outcome(r.raised), !.error = r.error,
                       !.env = IF embed_ok THEN "ok" ELSE "embedding_fails",
                       !.chunks = su_chunks]
        /\ su_frame

SU_setup_qa_chain ==
    LET r == setup_qa_chain(su_state)
    IN  /\ su_set(r.st)
        /\ ret' = [RetInit EXCEPT !.op = "su.setup_qa_chain",
                       !.outcome = Outcome(r.raised), !.error = r.error]
        /\ su_frame

\* initialize_from_url: load, chunk with chunk_size=1000 and chunk_overlap=200,
\* embed, set up; the first step that raises ends the call.
SU_initialize_from_url(url, loads, embed_ok) ==
    LET l == load_document(su_state, url, loads)
        c == chunk_document(l.st, default_chunk_size, default_chunk_overlap)
        g == generate_embeddings(c.st, embed_ok)
        q == setup_qa_chain(g.st)
        r == IF l.raised THEN l ELSE IF c.raised THEN c
             ELSE IF g.raised THEN g ELSE q
    IN  /\ ~loads => embed_ok              \* nothing to embed
        /\ su_set(r.st)
        /\ ret' = [RetInit EXCEPT !.op = "su.initialize_from_url",
                       !.outcome = Outcome(r.raised), !.error = r.error,
                       !.args = <<url>>,
                       !.env = IF embed_ok THEN "ok" ELSE "embedding_fails",
                       !.fetched = <<url>>,
                       !.loaded = IF loads THEN <<url>> ELSE <<>>]
        /\ su_frame

SU_query(question, fault) ==
    LET r == su_query(su_state, question, fault)
    IN  /\ fault # "none" => su_retriever.set     \* no gateway is reached
        /\ ret' = [RetInit EXCEPT !.op = "su.query",
                       !.outcome = Outcome(r.raised), !.error = r.error,
                       !.value = r.value, !.args = <<question>>,
                       !.env = fault, !.trace = r.trace,
                       !.before = su_memory.turns,
                       !.retrieved = r.retrieved, !.prompt = r.prompt]
        /\ UNCHANGED su_vars
        /\ su_frame

SU_chat_function(session, message, fault) ==
    LET r == chat_function(su_state, message, fault)
    IN  /\ fault # "none" => su_retriever.set     \* no gateway is reached
        /\ ret' = [RetInit EXCEPT !.op = "su.chat_function",
                       !.outcome = Outcome(r.raised), !.error = r.error,
                       !.value = r.value, !.args = <<message>>,
                       !.env = fault, !.trace = r.trace,
                       !.session = session, !.before = su_memory.turns,
                       !.retrieved = r.retrieved, !.prompt = r.prompt]
        /\ UNCHANGED su_vars
        /\ su_frame

SU_Next ==
       \/ \E url \in Urls, loads \in BOOLEAN : SU_load_document(url, loads)
       \/ \E params \in ChunkParams : SU_chunk_document(params)
       \/ \E embed_ok \in BOOLEAN : SU_generate_embeddings(embed_ok)
       \/ SU_setup_qa_chain
       \/ \E url \in Urls, loads \in BOOLEAN, embed_ok \in BOOLEAN :
             SU_initialize_from_url(url, loads, embed_ok)
       \/ \E question \in Questions, fault \in QueryFaults \ {"condense_cancelled"} :
             SU_query(question, fault)
       \/ \E session \in Sessions, message \in Questions,
             fault \in QueryFaults \ {"condense_cancelled"} :
             SU_chat_function(session, message, fault)

----------------------------------------------------------------------------
Init ==
    /\ app \in {"app.py", "app_single_url.py"}
    /\ tp_vector_store = None
    /\ tp_llm = None
    /\ tp_chain = None
    /\ tp_memory = NoMemory
    /\ chroma_db = EmptyBag
    /\ su_documents = <<>>
    /\ su_chunks = <<>>
    /\ su_vector_store = NoStore
    /\ su_llm = None
    /\ su_memory = NoMemory
    /\ su_retriever = NoRetriever
    /\ ret = RetInit

Next == TP_Next \/ SU_Next

Spec == Init /\ [][Next]_vars

----------------------------------------------------------------------------
(***************************************************************************)
(* The claims.                                                             *)
(***************************************************************************)
\* The last call was a query: query of TradingPlatformRAG as chat of app.py
\* calls it, or query of SingleURLRAG.
IsQuery == ret.op \in {"tp.chat", "su.query"}

\* The last call was a chat callback of a front-end.
IsChat == ret.op \in {"tp.chat", "su.chat_function"}

\* The conversation memory of the pipeline the last call was made on.
Memory == IF ret.op = "tp.chat" THEN tp_memory ELSE su_memory

\* Ingestion has completed: the index the queries go to holds the chunks of
\* the loaded documents, and the chain (the retriever) is set up on it.
tp_ready == tp_chain # None /\ tp_vector_store # None /\ chroma_db # EmptyBag
su_ready == su_retriever.set /\ su_retriever.entries # <<>>
Ready == IF ret.op = "tp.chat" THEN tp_ready ELSE su_ready

\* The steps of a query that the claims order.
Steps(trace) ==
    SelectSeq(trace, LAMBDA e : e \in {"retrieve", "generate", "save"})

\* C1: a query issued when ingestion has not fully completed fails with the
\* not-ready error without calling the retriever or the chat model: a query
\* is only ever answered from an index that ingestion has finished building.
C1_QueryBeforeReadyRejected ==
    (IsQuery /\ ~Ready) =>
        /\ ret.outcome = "raise"
        /\ ret.error = "ValueError: not initialized"
        /\ ret.trace = <<>>

\* C2: initialize_from_url of TradingPlatformRAG on a list of which some
\* sources load and some fail (the gateways working) skips the failing
\* sources, fetches all in order, and ends Ready with an index that holds
\* exactly the chunks of the sources that loaded.
C2_PartialLoadReachesReady ==
    (/\ ret.op = "tp.initialize_from_url"
     /\ ret.env = "ok"
     /\ ret.loaded # <<>>
     /\ Len(ret.loaded) < Len(ret.fetched)) =>
        /\ ret.outcome = "return"
        /\ ret.fetched = ret.args[1]
        /\ tp_chain # None
        /\ chroma_db = add_documents(EmptyBag,
               split_documents(ret.loaded, default_chunk_size,
                               default_chunk_overlap))

\* C3: initialize_from_url of TradingPlatformRAG with no source url, or with
\* urls that all fail to load, raises the empty-corpus error and aborts: it
\* adds nothing to the index and assigns no vector store and no chain, so a
\* pipeline that was not ready is not ready after it and still rejects queries.
C3_EmptyCorpusAborts ==
    [][(ret'.op = "tp.initialize_from_url" /\ ret'.loaded = <<>>) =>
          /\ ret'.outcome = "raise"
          /\ ret'.error = "ValueError: expected a non-empty list"
          /\ UNCHANGED tp_vars
          /\ (tp_chain = None => tp_chain' = None)]_vars

\* Every source of a non-empty list failed, on a pipeline that is not ready.
C3_Witness ==
    /\ ret.op = "tp.initialize_from_url"
    /\ ret.fetched # <<>>
    /\ ret.loaded = <<>>
    /\ ret.outcome = "raise"
    /\ tp_chain = None
    /\ tp_vector_store = None

\* C4: every successful query retrieves, then generates, then appends one
\* turn to the conversation memory: the memory then holds the turns it held
\* before followed by this question and its answer, and the generation saw
\* the turns before as its history.
C4_QueryAppendsTurn ==
    (IsQuery /\ ret.outcome = "return") =>
        /\ Steps(ret.trace) = <<"retrieve", "generate", "save">>
        /\ Memory.set
        /\ Len(Memory.turns) = Len(ret.before) + 1
        /\ SubSeq(Memory.turns, 1, Len(ret.before)) = ret.before
        /\ Memory.turns[Len(Memory.turns)].question = ret.args[1]
        /\ Memory.turns[Len(Memory.turns)].answer = ret.value
        /\ ret.history = ret.before

\* C5: the history used to answer a query of one chat session holds no turn
\* recorded for another chat session.
C5_SessionsIsolated ==
    IsChat =>
        \A i \in 1..Len(ret.history) : ret.history[i].session = ret.session

\* C6: a query whose generation call was cancelled appends no turn: the
\* conversation memory holds exactly the turns it held before the query.
C6_CancelAppendsNothing ==
    ((IsQuery \/ IsChat) /\ ret.error = "Cancelled") =>
        /\ Memory.turns = ret.before
        /\ \A i \in 1..Len(Memory.turns) : Memory.turns[i].answer.kind = "answer"

\* A generation of a query on a memory that holds a turn was cancelled.
C6_Witness ==
    /\ ret.op = "tp.chat"
    /\ ret.error = "Cancelled"
    /\ ret.env = "generate_cancelled"
    /\ ret.trace[Len(ret.trace)] = "generate"
    /\ ret.before # <<>>

\* C7: the conversation memory is bounded with FIFO eviction: the number of
\* stored turns never exceeds the bound (the oldest turn leaves first).
C7_MemoryBounded ==
    /\ Len(tp_memory.turns) <= max_history_turns
    /\ Len(su_memory.turns) <= max_history_turns

\* C8: the index holds exactly one entry per chunk, also after the same chunks
\* were ingested again.
C8_OneEntryPerChunk ==
    /\ \A c \in BagToSet(chroma_db) : CopiesIn(c, chroma_db) = 1
    /\ \A i, j \in 1..Len(su_vector_store.entries) :
          su_vector_store.entries[i] = su_vector_store.entries[j] => i = j

\* C9: a failure of the embedding or chat gateway during the query of a chat
\* callback leaves the callback as an error; it is not handed back as a reply.
C9_GatewayFailurePropagates ==
    (IsChat /\ ret.error \in {"EmbeddingError", "GenerationError"}) =>
        /\ ret.outcome = "raise"
        /\ ret.value.kind # "error_text"

\* C10: a chunking call with chunk_overlap >= chunk_size fails with the
\* configuration error before any work: no source is fetched, nothing is
\* chunked.
C10_BadOverlapFailsFast ==
    /\ (ret.op = "tp.load_and_chunk_document" /\ ret.args[3] >= ret.args[2]) =>
          /\ ret.outcome = "raise"
          /\ ret.error = "ValueError: larger chunk overlap than chunk size"
          /\ ret.fetched = <<>>
          /\ ret.chunks = <<>>
    /\ (ret.op = "su.chunk_document" /\ ret.args[2] >= ret.args[1]) =>
          /\ ret.outcome = "raise"
          /\ ret.error = "ValueError: larger chunk overlap than chunk size"
          /\ ret.chunks = <<>>

\* The prompt holds a note besides the lines of the plain template.
NotesNoContext(prompt) ==
    \E i \in 1..Len(prompt.text) : prompt.text[i] \notin Range(qa_prompt)

\* C11: a query that the pipeline accepts and whose retrieval returns no chunk
\* does not fail: the chat model is invoked exactly once, its answer is
\* returned, and the prompt sent to it notes that there is no grounding
\* context.
C11_EmptyRetrievalNoted ==
    (/\ ret.op = "su.query"
     /\ ret.env = "none"
     /\ ret.trace # <<>>
     /\ ret.retrieved = <<>>) =>
        /\ ret.outcome = "return"
        /\ ret.value = Answer(ret.args[1])
        /\ Len(SelectSeq(ret.trace, LAMBDA e : e = "generate")) = 1
        /\ ret.prompt.context = <<>>
        /\ NotesNoContext(ret.prompt)

\* C12: in every state of TradingPlatformRAG the chain is set only if the
\* vector store, the llm and the memory are set; setup_conversation_chain
\* without a vector store raises and leaves the chain unset, and a query
\* without a chain is rejected.
C12_ChainImpliesParts ==
    /\ tp_chain # None =>
          /\ tp_vector_store # None
          /\ tp_llm # None
          /\ tp_memory.set
    /\ (ret.op = "tp.setup_conversation_chain" /\ tp_vector_store = None) =>
          /\ ret.outcome = "raise"
          /\ tp_chain = None
    /\ (ret.op = "tp.chat" /\ tp_chain = None) =>
          /\ ret.outcome = "raise"
          /\ ret.error = "ValueError: not initialized"
          /\ ret.trace = <<>>

\* A query is rejected after setup_conversation_chain was called without a
\* vector store (it assigned llm and memory, and raised).
C12_Witness ==
    /\ ret.op = "tp.chat"
    /\ ret.error = "ValueError: not initialized"
    /\ tp_vector_store = None
    /\ tp_llm # None
    /\ tp_memory.set
    /\ tp_chain = None

====
